---- MODULE Spec2Model ----
(***************************************************************************)
(* Master-side driver of a daisy chain of battery monitors (BMs) on a      *)
(* shared serial link: controlFunctions.py (the protocol functions) and    *)
(* controlModule.py (start-up and the polling loop).                       *)
(*                                                                         *)
(* Frames are sequences of bytes.  Python indexes them from 0, TLA+ from   *)
(* 1: byte k of the source is element k+1 here; At(buf, k) reads byte k.   *)
(***************************************************************************)
EXTENDS Integers, Sequences, FiniteSets, TLC

VARIABLES
    simulate,            \* controlFunctions.simulate
    addressAssigned,     \* controlModule.addressAssigned
    testCall,            \* the test call enabled at the end of the polling loop body
    link,                \* what the serial link does to the boards' answers
    seed,                \* the seed of the random module
    pc,                  \* position of the (single-threaded) program
    i,                   \* loop index of assignAddresses / of the polling loop
    trigger_in,          \* GPIO 23 output: "off" (line low, BM activated) or "on"
    global_set_addr_cmd, \* frame buffer of assignAddresses
    trigger_cmd,         \* frame buffer of assignAddresses
    auto_addr_done_cmd,  \* frame buffer of assignAddresses
    wire,                \* what the program did to the transport and the trigger line, in order
    bms,                 \* the boards of the chain: their address and trigger output
    inbuf,               \* bytes waiting in the serial input buffer
    ackFailed,           \* boards whose SET_ADDRESS got no acknowledgment or a wrong one
    cycle,               \* number of polling cycles started
    j,                   \* loop index of pollForVoltages
    cmd_buf,             \* send_voltage / send_summary / balance_target frame buffer
    bm_response_buffer,  \* the bytes of the last read
    allVoltages,         \* result under construction in pollForVoltages
    battery_voltages,    \* controlModule.battery_voltages, one row per BM
    summary,             \* the summary built by sendSummary
    responses,           \* the answers of the running call, in order: as read by
                         \* pollForVoltages, as arrived for balanceTarget
    ack                  \* the value returned by the last balanceTarget call

cfgVars == << simulate, addressAssigned, testCall, link, seed >>
aaVars == << global_set_addr_cmd, trigger_cmd, auto_addr_done_cmd >>
pollVars == << cycle, j, cmd_buf, bm_response_buffer, allVoltages,
               battery_voltages, summary, responses, ack >>

vars == << simulate, addressAssigned, testCall, link, seed, pc, i, trigger_in, global_set_addr_cmd,
           trigger_cmd, auto_addr_done_cmd, wire, bms, inbuf, ackFailed,
           cycle, j, cmd_buf, bm_response_buffer, allVoltages,
           battery_voltages, summary, responses, ack >>

-----------------------------------------------------------------------------
(* Declarations and packet definitions                                     *)

NO_BMS == 3
addresses == << 173, 188, 222 >>       \* [0xad, 0xbc, 0xde]
BMS_COMMAND_LEN == 8
BM_RESPONSE_LEN == 14
Ess_current == 285

HEAD == 88                             \* 0x58
GLOBAL_ADDR == 255                     \* 0xff
DEFAULT_ADDR == 254                    \* 0xfe

CMD_TRIGGER == 50                      \* 0x32
CMD_SET_ADDRESS == 60                  \* 0x3c
CMD_AUTOADDR_DONE == 65                \* 0x41
CMD_GLOBAL_SNAPSHOT == 70              \* 0x46
CMD_SEND_SUMMARY == 80                 \* 0x50
CMD_SEND_ALL_VOLTAGES_1 == 160         \* 0xa0
CMD_BALANCE_TARGET == 170              \* 0xaa

Boards == 0 .. (NO_BMS - 1)

\* addresses[i] of the source (0-based index)
AddressOf(b) == addresses[b + 1]

\* buf[k] of the source (0-based index)
At(buf, k) == buf[k + 1]

\* buf[k] = v of the source (0-based index)
Put(buf, k, v) == [buf EXCEPT ![k + 1] = v]

-----------------------------------------------------------------------------
(* Bit operations on non-negative integers                                 *)

RECURSIVE BitAnd(_, _)
BitAnd(a, b) ==
    IF a = 0 \/ b = 0 THEN 0
    ELSE ((a % 2) * (b % 2)) + 2 * BitAnd(a \div 2, b \div 2)

RECURSIVE BitOr(_, _)
BitOr(a, b) ==
    IF a = 0 THEN b
    ELSE IF b = 0 THEN a
    ELSE (IF (a % 2) + (b % 2) > 0 THEN 1 ELSE 0) + 2 * BitOr(a \div 2, b \div 2)

RECURSIVE BitXor(_, _)
BitXor(a, b) ==
    IF a = 0 THEN b
    ELSE IF b = 0 THEN a
    ELSE (((a % 2) + (b % 2)) % 2) + 2 * BitXor(a \div 2, b \div 2)

RECURSIVE Pow2(_)
Pow2(n) == IF n = 0 THEN 1 ELSE 2 * Pow2(n - 1)

Shl(a, n) == a * Pow2(n)
Shr(a, n) == a \div Pow2(n)

-----------------------------------------------------------------------------
(* crc8.crcCalcCRC8, imported as getCRC: an 8-bit CRC whose value over a   *)
(* buffer that ends with its own CRC byte is 0 (the property the callers   *)
(* rely on when they test getCRC(buf, 14) == 0).                           *)

CRC_POLY == 7

RECURSIVE crcShift(_, _)
crcShift(c, n) ==
    IF n = 0 THEN c
    ELSE crcShift(IF c >= 128 THEN BitXor((c * 2) % 256, CRC_POLY)
                              ELSE (c * 2) % 256, n - 1)

crcTable == [b \in 0 .. 255 |-> crcShift(b, 8)]

RECURSIVE getCRC(_, _)
getCRC(buf, n) ==
    IF n = 0 THEN 0
    ELSE crcTable[BitXor(getCRC(buf, n - 1), buf[n])]

-----------------------------------------------------------------------------
(* The transport and the trigger line, as the program drives them          *)

EvWrite(f) == [ev |-> "write", frame |-> f]
EvClear == [ev |-> "clear", frame |-> << >>]
EvRead == [ev |-> "read", frame |-> << >>]
EvAssert == [ev |-> "assert", frame |-> << >>]
EvDeassert == [ev |-> "deassert", frame |-> << >>]

\* the frames written so far, in order
Written ==
    LET w == SelectSeq(wire, LAMBDA e : e.ev = "write")
    IN  [k \in 1 .. Len(w) |-> w[k].frame]

\* trigger_in.off(): active low, this activates the BM
assertTrigger == "off"

\* trigger_in.on(): deactivates the BM
deassertTrigger == "on"

-----------------------------------------------------------------------------
(* The boards.  All boards hear every frame of the shared bus.  A board    *)
(* takes a frame addressed to GLOBAL or to the address it holds; it takes  *)
(* SET_ADDRESS only while its trigger input is active (board 0: the        *)
(* controller's trigger line, board b > 0: the trigger output of board     *)
(* b-1); TRIGGER toggles the trigger output of the board it is for.        *)

BoardEnabled(b, trig, chain) ==
    IF b = 0 THEN trig = assertTrigger ELSE chain[b - 1].trig_out

BoardMatches(bm, a) == a = GLOBAL_ADDR \/ a = bm.addr

FrameAccepted(f) ==
    /\ Len(f) = BMS_COMMAND_LEN
    /\ At(f, 0) = HEAD
    /\ getCRC(f, BMS_COMMAND_LEN) = 0

TakesSetAddress(b, trig, chain, f) ==
    /\ FrameAccepted(f)
    /\ At(f, 2) = CMD_SET_ADDRESS
    /\ BoardMatches(chain[b], At(f, 1))
    /\ BoardEnabled(b, trig, chain)

TakesTrigger(b, chain, f) ==
    /\ FrameAccepted(f)
    /\ At(f, 2) = CMD_TRIGGER
    /\ BoardMatches(chain[b], At(f, 1))

Deliver(chain, trig, f) ==
    [b \in Boards |->
        IF TakesSetAddress(b, trig, chain, f)
        THEN [chain[b] EXCEPT !.addr = At(f, 3)]
        ELSE IF TakesTrigger(b, chain, f)
        THEN [chain[b] EXCEPT !.trig_out = ~ chain[b].trig_out]
        ELSE chain[b]]

\* a board that is enabled and still holds DEFAULT
Addressable(b) == BoardEnabled(b, trigger_in, bms) /\ bms[b].addr = DEFAULT_ADDR

\* a 14-byte response frame [HEAD, address, payload(11), CRC]
MkResponse(a, payload) ==
    LET body == << HEAD, a >> \o payload
    IN  body \o << getCRC(body, BM_RESPONSE_LEN - 1) >>

ZeroPayload == [k \in 1 .. 11 |-> 0]

\* what arrives of a board's answer: the whole answer, nothing, a truncated
\* answer, or an answer with a corrupted byte
ReplyKinds == { "ok", "none", "short", "bad" }

ReplyBytes(kind, valid) ==
    CASE kind = "ok" -> valid
      [] kind = "short" -> SubSeq(valid, 1, BM_RESPONSE_LEN - 1)
      [] kind = "bad" -> Put(valid, 2, BitXor(At(valid, 2), 1))
      [] OTHER -> << >>

\* the kinds the link allows when some board answers
ReplyChoice(answered) ==
    IF ~ answered THEN { "none" }
    ELSE IF link = "any" THEN ReplyKinds
    ELSE { link }

-----------------------------------------------------------------------------
(* assignAddresses: the frames it builds                                   *)

\* variant: the frame is addressed to DEFAULT instead of GLOBAL
AutoAddrDoneCmd_toDefault ==
    LET f == << HEAD, DEFAULT_ADDR, CMD_AUTOADDR_DONE, 0, 0, 0, 0, 0 >>
    IN  Put(f, 7, getCRC(f, 7))

\* auto_addr_done_cmd with its CRC
AutoAddrDoneCmd ==
    LET f == << HEAD, GLOBAL_ADDR, CMD_AUTOADDR_DONE, 0, 0, 0, 0, 0 >>
    IN  Put(f, 7, getCRC(f, 7))

\* trigger_cmd as declared
InitTriggerCmd == << HEAD, DEFAULT_ADDR, CMD_TRIGGER, 0, 0, 0, 0, 0 >>

\* global_set_addr_cmd as declared
InitSetAddrCmd == << HEAD, GLOBAL_ADDR, CMD_SET_ADDRESS, DEFAULT_ADDR, 0, 0, 2, 0 >>

\* variant: the new address is not stored in the frame
SetAddrUpdate_noPayload(cmd, b) == Put(cmd, 7, getCRC(cmd, 7))

\* global_set_addr_cmd[3] = addresses[i]; global_set_addr_cmd[7] = getCRC(...)
SetAddrUpdate(cmd, b) ==
    LET c == Put(cmd, 3, AddressOf(b))
    IN  Put(c, 7, getCRC(c, 7))

\* variant: the CRC is not recomputed after the address changed
TriggerUpdate_staleCRC(cmd, a) == Put(cmd, 1, a)

\* trigger_cmd[1] = a; trigger_cmd[7] = getCRC(trigger_cmd, 7)
TriggerUpdate(cmd, a) ==
    LET c == Put(cmd, 1, a)
    IN  Put(c, 7, getCRC(c, 7))

\* variant: the TRIGGER is broadcast
TriggerNextAddr_global(b) == GLOBAL_ADDR

\* the address of the TRIGGER that makes BM i activate the next BM
TriggerNextAddr(b) == AddressOf(b)

\* variant: the second TRIGGER goes to BM i again
TriggerPrevAddr_same(b) == AddressOf(b)

\* the address of the TRIGGER that makes the previous BM deactivate BM i
TriggerPrevAddr(b) == AddressOf(b - 1)

\* variant: the loop stops one board early
ForBranch_offByOne(n) ==
    IF n >= NO_BMS - 1 THEN "aa_done"
    ELSE IF n = 0 THEN "aa0_assert" ELSE "aai_set"

\* the for loop: the branch taken for index n
ForBranch(n) ==
    IF n >= NO_BMS THEN "aa_done"
    ELSE IF n = 0 THEN "aa0_assert" ELSE "aai_set"

\* serialPort.write(f): the frame goes on the bus and the boards act on it
WriteFrame(f) ==
    /\ wire' = Append(wire, EvWrite(f))
    /\ bms' = Deliver(bms, trigger_in, f)

\* serialPort.write(global_set_addr_cmd), "response expected": the board
\* that takes the command may answer, and the answer stays in the input buffer
WriteSetAddress(f) ==
    /\ WriteFrame(f)
    /\ \E kind \in ReplyChoice(\E b \in Boards : TakesSetAddress(b, trigger_in, bms, f)) :
          /\ inbuf' = inbuf \o ReplyBytes(kind, MkResponse(At(f, 3), ZeroPayload))
          /\ ackFailed' = IF kind = "ok" THEN ackFailed ELSE ackFailed \cup { i }

-----------------------------------------------------------------------------
(* controlModule: start-up                                                 *)

\* variant: the addresses are assigned at every start, whatever the flag
Main_Start_always ==
    /\ pc = "main"
    /\ pc' = "aa_enter"
    /\ UNCHANGED << cfgVars, i, trigger_in, aaVars, wire, bms, inbuf, ackFailed, pollVars >>

\* if (addressAssigned == False): cf.assignAddresses()
Main_Start ==
    /\ pc = "main"
    /\ pc' = IF addressAssigned = FALSE THEN "aa_enter" ELSE "loop"
    /\ UNCHANGED << cfgVars, i, trigger_in, aaVars, wire, bms, inbuf, ackFailed, pollVars >>

-----------------------------------------------------------------------------
(* assignAddresses, one action per write or trigger-line change            *)

\* simulate == True: only prints the addresses
AA_Simulated ==
    /\ pc = "aa_enter"
    /\ simulate = TRUE
    /\ pc' = "loop"
    /\ UNCHANGED << cfgVars, i, trigger_in, aaVars, wire, bms, inbuf, ackFailed, pollVars >>

\* build the three frames, sound the buzzer, reset the input buffer, enter the loop
AA_Enter ==
    /\ pc = "aa_enter"
    /\ simulate = FALSE
    /\ auto_addr_done_cmd' = AutoAddrDoneCmd
    /\ trigger_cmd' = InitTriggerCmd
    /\ global_set_addr_cmd' = InitSetAddrCmd
    /\ inbuf' = << >>
    /\ wire' = Append(wire, EvClear)
    /\ i' = 0
    /\ pc' = ForBranch(0)
    /\ UNCHANGED << cfgVars, trigger_in, bms, ackFailed, pollVars >>

\* i == 0: activate the first BM
AA0_AssertTrigger ==
    /\ pc = "aa0_assert"
    /\ trigger_in' = assertTrigger
    /\ wire' = Append(wire, EvAssert)
    /\ pc' = "aa0_set"
    /\ UNCHANGED << cfgVars, i, aaVars, bms, inbuf, ackFailed, pollVars >>

\* i == 0: update both commands, write SET_ADDRESS
AA0_WriteSetAddress ==
    /\ pc = "aa0_set"
    /\ global_set_addr_cmd' = SetAddrUpdate(global_set_addr_cmd, i)
    /\ trigger_cmd' = TriggerUpdate(trigger_cmd, TriggerNextAddr(i))
    /\ WriteSetAddress(global_set_addr_cmd')
    /\ pc' = "aa0_trig"
    /\ UNCHANGED << cfgVars, i, trigger_in, auto_addr_done_cmd, pollVars >>

\* i == 0: trigger the next BM
AA0_WriteTrigger ==
    /\ pc = "aa0_trig"
    /\ WriteFrame(trigger_cmd)
    /\ pc' = "aa0_deassert"
    /\ UNCHANGED << cfgVars, i, trigger_in, aaVars, inbuf, ackFailed, pollVars >>

\* variant: the trigger line is left asserted
AA0_DeassertTrigger_missing ==
    /\ pc = "aa0_deassert"
    /\ i' = i + 1
    /\ pc' = ForBranch(i + 1)
    /\ UNCHANGED << cfgVars, trigger_in, wire, aaVars, bms, inbuf, ackFailed, pollVars >>

\* i == 0: deactivate the first BM; next iteration
AA0_DeassertTrigger ==
    /\ pc = "aa0_deassert"
    /\ trigger_in' = deassertTrigger
    /\ wire' = Append(wire, EvDeassert)
    /\ i' = i + 1
    /\ pc' = ForBranch(i + 1)
    /\ UNCHANGED << cfgVars, aaVars, bms, inbuf, ackFailed, pollVars >>

\* i > 0: update both commands, write SET_ADDRESS
AAi_WriteSetAddress ==
    /\ pc = "aai_set"
    /\ global_set_addr_cmd' = SetAddrUpdate(global_set_addr_cmd, i)
    /\ trigger_cmd' = TriggerUpdate(trigger_cmd, TriggerNextAddr(i))
    /\ WriteSetAddress(global_set_addr_cmd')
    /\ pc' = "aai_trig"
    /\ UNCHANGED << cfgVars, i, trigger_in, auto_addr_done_cmd, pollVars >>

\* i > 0: command this BM to activate the next BM
AAi_WriteTrigger ==
    /\ pc = "aai_trig"
    /\ WriteFrame(trigger_cmd)
    /\ pc' = "aai_prev"
    /\ UNCHANGED << cfgVars, i, trigger_in, aaVars, inbuf, ackFailed, pollVars >>

\* i > 0: tell the previous BM to deactivate this BM; next iteration
AAi_WriteTriggerPrev ==
    /\ pc = "aai_prev"
    /\ trigger_cmd' = TriggerUpdate(trigger_cmd, TriggerPrevAddr(i))
    /\ WriteFrame(trigger_cmd')
    /\ i' = i + 1
    /\ pc' = ForBranch(i + 1)
    /\ UNCHANGED << cfgVars, trigger_in, global_set_addr_cmd, auto_addr_done_cmd,
                    inbuf, ackFailed, pollVars >>

\* after the loop: inform the BMs that addresses have been assigned; return
AA_Done ==
    /\ pc = "aa_done"
    /\ WriteFrame(auto_addr_done_cmd)
    /\ pc' = "loop"
    /\ UNCHANGED << cfgVars, i, trigger_in, aaVars, inbuf, ackFailed, pollVars >>

assignAddresses ==
    \/ AA_Simulated
    \/ AA_Enter
    \/ AA0_AssertTrigger
    \/ AA0_WriteSetAddress
    \/ AA0_WriteTrigger
    \/ AA0_DeassertTrigger
    \/ AAi_WriteSetAddress
    \/ AAi_WriteTrigger
    \/ AAi_WriteTriggerPrev
    \/ AA_Done

-----------------------------------------------------------------------------
(* The boards' answers to telemetry requests                               *)

MaxCycles == 2

LowByte(v) == v % 256
HighByte(v) == (v \div 256) % 256

\* the voltage (mV) of cell k of group g of board b in polling cycle c
CellMilliVolts(b, g, k, c) == 100 * (4 * g + k + 1) + 1000 * b + 10 * (c - 1)

\* the valid response of board b to SEND_ALL_VOLTAGES_(g+1)
VoltReply(b, g, c) ==
    MkResponse(bms[b].addr,
        << LowByte(CellMilliVolts(b, g, 0, c)), HighByte(CellMilliVolts(b, g, 0, c)),
           LowByte(CellMilliVolts(b, g, 1, c)), HighByte(CellMilliVolts(b, g, 1, c)),
           LowByte(CellMilliVolts(b, g, 2, c)), HighByte(CellMilliVolts(b, g, 2, c)),
           LowByte(CellMilliVolts(b, g, 3, c)), HighByte(CellMilliVolts(b, g, 3, c)),
           0, 0, 0 >>)

\* the summary of board b in cycle c: min, minLoc, max, maxLoc, avg, temp1, temp2, status
BoardSummary(b, c) ==
    << 3000 + b, 3 + b, 3500 + 10 * c, 9 + b, 3250, 250 + 256 * b, 300 + c, 5 >>

\* the valid response of board b to SEND_SUMMARY
SummaryReply(b, c) ==
    LET v == BoardSummary(b, c)
    IN  MkResponse(bms[b].addr,
            << LowByte(v[1]), HighByte(v[1]),
               LowByte(v[3]), HighByte(v[3]),
               LowByte(v[5]), HighByte(v[5]),
               v[2] + 16 * v[4],
               LowByte(v[6]),
               (v[6] \div 256) + 16 * (v[7] % 16),
               v[7] \div 16,
               v[8] >>)

\* the boards that answer a targeted request
Responders(f) == { b \in Boards : FrameAccepted(f) /\ bms[b].addr = At(f, 1) }

\* serialPort.read(n): up to n bytes of the input buffer
ReadBytes(buf, n) == SubSeq(buf, 1, IF Len(buf) < n THEN Len(buf) ELSE n)
RestBytes(buf, n) == SubSeq(buf, (IF Len(buf) < n THEN Len(buf) ELSE n) + 1, Len(buf))

-----------------------------------------------------------------------------
(* Response validation and decoding                                        *)

\* variant: only the length is checked
ResponseIsCorrect_lenOnly(buf) == Len(buf) = BM_RESPONSE_LEN

\* len(bm_response_buffer) == BM_RESPONSE_LEN and getCRC(...) == 0
ResponseIsCorrect(buf) ==
    /\ Len(buf) = BM_RESPONSE_LEN
    /\ getCRC(buf, BM_RESPONSE_LEN) = 0

\* variant: the two bytes of a cell are taken in the other order
CellVoltage_bigEndian(buf, k) ==
    BitOr(Shl(BitAnd(At(buf, 2 * k + 2), 255), 8), At(buf, 2 * k + 3))

\* cellA..cellD: cell = buf[2k+3] & 0xff; cell = (cell << 8) | buf[2k+2]
CellVoltage(buf, k) ==
    BitOr(Shl(BitAnd(At(buf, 2 * k + 3), 255), 8), At(buf, 2 * k + 2))

\* for k in range(4): allVoltages[j*4+k] = cellVoltages[k]
StoreVoltages(av, g, buf) ==
    [n \in 0 .. 11 |-> IF n \div 4 = g THEN CellVoltage(buf, n % 4) ELSE av[n]]

\* the simulated path: allVoltages[j*4+k] = cellVoltages[k] + 1
StoreVoltagesSim(av, g, buf) ==
    [n \in 0 .. 11 |-> IF n \div 4 = g THEN CellVoltage(buf, n % 4) + 1 ELSE av[n]]

\* variant: a rejected response clears the voltages stored so far
DecodeVoltages_clearOnFailure(av, g, buf) ==
    IF ResponseIsCorrect(buf) THEN StoreVoltages(av, g, buf)
    ELSE [n \in 0 .. 11 |-> 0]

\* the validation gate of pollForVoltages
DecodeVoltages(av, g, buf) ==
    IF ResponseIsCorrect(buf) THEN StoreVoltages(av, g, buf) ELSE av

\* variant: temp2 takes the low nibble of byte 10, which belongs to temp1
SummaryFields_temp2LowNibble(buf) ==
    LET minV == BitOr(Shl(BitAnd(At(buf, 3), 255), 8), BitAnd(At(buf, 2), 255))
        maxV == BitOr(Shl(BitAnd(At(buf, 5), 255), 8), BitAnd(At(buf, 4), 255))
        avgV == BitOr(Shl(BitAnd(At(buf, 7), 255), 8), BitAnd(At(buf, 6), 255))
        minVLoc == BitAnd(At(buf, 8), 15)
        maxVLoc == BitAnd(Shr(At(buf, 8), 4), 15)
        temp1 == BitOr(Shl(BitAnd(At(buf, 10), 15), 8), BitAnd(At(buf, 9), 255))
        temp2 == BitOr(Shl(BitAnd(At(buf, 11), 255), 4), BitAnd(At(buf, 10), 15))
        status == At(buf, 12)
        s == << minV, minVLoc, maxV, maxVLoc, avgV, temp1, temp2, status >>
    IN  [k \in 0 .. 7 |-> s[k + 1]]

\* summary = [minV, minVLoc, maxV, maxVLoc, avgV, temp1, temp2, status]
SummaryFields(buf) ==
    LET minV == BitOr(Shl(BitAnd(At(buf, 3), 255), 8), BitAnd(At(buf, 2), 255))
        maxV == BitOr(Shl(BitAnd(At(buf, 5), 255), 8), BitAnd(At(buf, 4), 255))
        avgV == BitOr(Shl(BitAnd(At(buf, 7), 255), 8), BitAnd(At(buf, 6), 255))
        minVLoc == BitAnd(At(buf, 8), 15)
        maxVLoc == BitAnd(Shr(At(buf, 8), 4), 15)
        temp1 == BitOr(Shl(BitAnd(At(buf, 10), 15), 8), BitAnd(At(buf, 9), 255))
        temp2 == BitOr(Shl(BitAnd(At(buf, 11), 255), 4), Shr(At(buf, 10), 4))
        status == At(buf, 12)
        s == << minV, minVLoc, maxV, maxVLoc, avgV, temp1, temp2, status >>
    IN  [k \in 0 .. 7 |-> s[k + 1]]

ZeroSummary == [k \in 0 .. 7 |-> 0]

\* the validation gate of sendSummary
DecodeSummary(buf) ==
    IF ResponseIsCorrect(buf) THEN SummaryFields(buf) ELSE ZeroSummary

-----------------------------------------------------------------------------
(* The request frames                                                      *)

\* variant: the snapshot is broadcast without the system current
GlobalSnapshotCmd_noCurrent(Ess_curr) ==
    LET f == << HEAD, GLOBAL_ADDR, CMD_GLOBAL_SNAPSHOT, 0, 0, 0, 0, 255 >>
    IN  Put(f, 7, getCRC(f, 7))

\* global_snapshot with its CRC
GlobalSnapshotCmd(Ess_curr) ==
    LET f == << HEAD, GLOBAL_ADDR, CMD_GLOBAL_SNAPSHOT, 0,
                BitAnd(Ess_curr, 255), BitAnd(Shr(Ess_curr, 8), 255), 0, 255 >>
    IN  Put(f, 7, getCRC(f, 7))

\* send_voltage as declared
InitSendVoltage(address) ==
    << HEAD, address, CMD_SEND_ALL_VOLTAGES_1, 0, 0, 0, 0, 255 >>

\* send_voltage[2] = CMD_SEND_ALL_VOLTAGES_1 + j; send_voltage[7] = getCRC(...)
SendVoltageUpdate(cmd, g) ==
    LET c == Put(cmd, 2, CMD_SEND_ALL_VOLTAGES_1 + g)
    IN  Put(c, 7, getCRC(c, 7))

\* send_summary with its CRC
SendSummaryCmd(addr, Ess_curr) ==
    LET f == << HEAD, addr, CMD_SEND_SUMMARY, 0,
                BitAnd(Ess_curr, 255), BitAnd(Shr(Ess_curr, 8), 255), 0, 255 >>
    IN  Put(f, 7, getCRC(f, 7))

\* random.randint: the response bytes 2..9 of the simulated pollForVoltages
\* (even bytes in 0..255, odd bytes in 0..15)
SimVoltageBytes ==
    << << 100, 0, 200, 0, 44, 1, 144, 1 >>,
       << 255, 15, 0, 0, 1, 15, 254, 7 >> >>

\* random.randint: the response bytes 2..12 of the simulated sendSummary
SimSummaryBytes ==
    << << 184, 11, 172, 13, 178, 12, 147, 250, 192, 18, 5 >>,
       << 255, 15, 0, 0, 255, 15, 187, 255, 255, 255, 7 >> >>

\* the draws the random module can give at draw number n
SimDraws(n) ==
    IF link = "any" THEN { 1, 2 } ELSE { ((seed + n) % 2) + 1 }

-----------------------------------------------------------------------------
(* controlModule: the polling loop                                         *)

\* a new cycle is due: sound the buzzer, for i in range(len(addresses))
Loop_StartCycle ==
    /\ pc = "loop"
    /\ cycle < MaxCycles
    /\ cycle' = cycle + 1
    /\ i' = 0
    /\ pc' = "pv_enter"
    /\ UNCHANGED << cfgVars, trigger_in, aaVars, wire, bms, inbuf, ackFailed, ack, j,
                    cmd_buf, bm_response_buffer, allVoltages, battery_voltages,
                    summary, responses >>

-----------------------------------------------------------------------------
(* pollForVoltages(addresses[i])                                           *)

\* fresh buffers; on the real transport, globalSnapshot(Ess_current)
PV_Enter ==
    /\ pc = "pv_enter"
    /\ bm_response_buffer' = [k \in 1 .. BM_RESPONSE_LEN |-> 0]
    /\ allVoltages' = [k \in 0 .. 11 |-> 0]
    /\ cmd_buf' = InitSendVoltage(AddressOf(i))
    /\ responses' = << >>
    /\ j' = 0
    /\ IF simulate = FALSE
       THEN /\ WriteFrame(GlobalSnapshotCmd(Ess_current))
            /\ pc' = "pv_request"
       ELSE /\ UNCHANGED << wire, bms >>
            /\ pc' = "pv_sim"
    /\ UNCHANGED << cfgVars, i, trigger_in, aaVars, inbuf, ackFailed, ack, cycle,
                    battery_voltages, summary >>

\* update the command, reset the input buffer, write the command
PV_Request ==
    /\ pc = "pv_request"
    /\ cmd_buf' = SendVoltageUpdate(cmd_buf, j)
    /\ wire' = wire \o << EvClear, EvWrite(cmd_buf') >>
    /\ bms' = Deliver(bms, trigger_in, cmd_buf')
    /\ \E kind \in ReplyChoice(Responders(cmd_buf') # { }) :
          inbuf' = ReplyBytes(kind,
                       IF kind = "none" THEN << >>
                       ELSE VoltReply(CHOOSE b \in Responders(cmd_buf') : TRUE, j, cycle))
    /\ pc' = "pv_read"
    /\ UNCHANGED << cfgVars, i, trigger_in, aaVars, ackFailed, ack, cycle, j,
                    bm_response_buffer, allVoltages, battery_voltages, summary,
                    responses >>

\* read the response, check it, store the four cell voltages; next j
PV_Read ==
    /\ pc = "pv_read"
    /\ bm_response_buffer' = ReadBytes(inbuf, BM_RESPONSE_LEN)
    /\ inbuf' = RestBytes(inbuf, BM_RESPONSE_LEN)
    /\ wire' = Append(wire, EvRead)
    /\ responses' = Append(responses, bm_response_buffer')
    /\ allVoltages' = DecodeVoltages(allVoltages, j, bm_response_buffer')
    /\ j' = j + 1
    /\ pc' = IF j + 1 < 3 THEN "pv_request" ELSE "pv_return"
    /\ UNCHANGED << cfgVars, i, trigger_in, aaVars, bms, ackFailed, ack, cycle,
                    cmd_buf, battery_voltages, summary >>

\* the simulated path: a random, well-formed response for each j
PV_Sim ==
    /\ pc = "pv_sim"
    /\ \E d \in SimDraws(i + j) :
          /\ bm_response_buffer' =
                MkResponse(AddressOf(i), SimVoltageBytes[d] \o << 0, 0, 0 >>)
          /\ responses' = Append(responses, bm_response_buffer')
          /\ allVoltages' =
                IF ResponseIsCorrect(bm_response_buffer')
                THEN StoreVoltagesSim(allVoltages, j, bm_response_buffer')
                ELSE allVoltages
    /\ j' = j + 1
    /\ pc' = IF j + 1 < 3 THEN "pv_sim" ELSE "pv_return"
    /\ UNCHANGED << cfgVars, i, trigger_in, aaVars, wire, bms, inbuf, ackFailed, ack,
                    cycle, cmd_buf, battery_voltages, summary >>

\* return allVoltages; controlModule: battery_voltages[i,:] = volt
PV_Return ==
    /\ pc = "pv_return"
    /\ battery_voltages' = [battery_voltages EXCEPT ![i] = allVoltages]
    /\ bm_response_buffer' = << >>
    /\ responses' = << >>
    /\ cmd_buf' = << >>
    /\ pc' = "ss_enter"
    /\ UNCHANGED << cfgVars, i, trigger_in, aaVars, wire, bms, inbuf, ackFailed, ack,
                    cycle, j, allVoltages, summary >>

pollForVoltages == PV_Enter \/ PV_Request \/ PV_Read \/ PV_Sim \/ PV_Return

-----------------------------------------------------------------------------
(* sendSummary(addresses[i], Ess_current)                                  *)

\* build the command; on the real transport reset the input buffer and write it
SS_Enter ==
    /\ pc = "ss_enter"
    /\ cmd_buf' = SendSummaryCmd(AddressOf(i), Ess_current)
    /\ bm_response_buffer' = [k \in 1 .. BM_RESPONSE_LEN |-> 0]
    /\ summary' = ZeroSummary
    /\ IF simulate = FALSE
       THEN /\ wire' = wire \o << EvClear, EvWrite(cmd_buf') >>
            /\ bms' = Deliver(bms, trigger_in, cmd_buf')
            /\ \E kind \in ReplyChoice(Responders(cmd_buf') # { }) :
                  inbuf' = ReplyBytes(kind,
                               IF kind = "none" THEN << >>
                               ELSE SummaryReply(CHOOSE b \in Responders(cmd_buf') : TRUE, cycle))
            /\ pc' = "ss_read"
       ELSE /\ UNCHANGED << wire, bms, inbuf >>
            /\ pc' = "ss_sim"
    /\ UNCHANGED << cfgVars, i, trigger_in, aaVars, ackFailed, ack, cycle, j,
                    allVoltages, battery_voltages, responses >>

\* read the response, check it, decode the summary
SS_Read ==
    /\ pc = "ss_read"
    /\ bm_response_buffer' = ReadBytes(inbuf, BM_RESPONSE_LEN)
    /\ inbuf' = RestBytes(inbuf, BM_RESPONSE_LEN)
    /\ wire' = Append(wire, EvRead)
    /\ summary' = DecodeSummary(bm_response_buffer')
    /\ pc' = "ss_return"
    /\ UNCHANGED << cfgVars, i, trigger_in, aaVars, bms, ackFailed, ack, cycle, j,
                    cmd_buf, allVoltages, battery_voltages, responses >>

\* the simulated path: a random, well-formed mock response
SS_Sim ==
    /\ pc = "ss_sim"
    /\ \E d \in SimDraws(i) :
          /\ bm_response_buffer' = MkResponse(AddressOf(i), SimSummaryBytes[d])
          /\ summary' = DecodeSummary(bm_response_buffer')
    /\ pc' = "ss_return"
    /\ UNCHANGED << cfgVars, i, trigger_in, aaVars, wire, bms, inbuf, ackFailed, ack,
                    cycle, j, cmd_buf, allVoltages, battery_voltages, responses >>

\* return summary; controlModule prints it and goes to the next BM
SS_Return ==
    /\ pc = "ss_return"
    /\ bm_response_buffer' = << >>
    /\ cmd_buf' = << >>
    /\ i' = i + 1
    /\ pc' = IF i + 1 < Len(addresses) THEN "pv_enter" ELSE "loop_test"
    /\ UNCHANGED << cfgVars, trigger_in, aaVars, wire, bms, inbuf, ackFailed, ack,
                    cycle, j, allVoltages, battery_voltages, summary, responses >>

sendSummary == SS_Enter \/ SS_Read \/ SS_Sim \/ SS_Return

-----------------------------------------------------------------------------
(* balanceTarget(addr, target) and resetTarget(addr)                       *)

\* balance_target with its CRC: the payload holds target - 1
\* variant: the target is sent as given, without the N-1 adjustment
BalanceTargetCmd_noMinusOne(addr, target) ==
    LET f == << HEAD, addr, CMD_BALANCE_TARGET, 0,
                BitAnd(target, 255), BitAnd(Shr(target, 8), 255), 0, 255 >>
    IN  Put(f, 7, getCRC(f, 7))

BalanceTargetCmd(addr, target) ==
    LET tg == target - 1
        f == << HEAD, addr, CMD_BALANCE_TARGET, 0,
                BitAnd(tg, 255), BitAnd(Shr(tg, 8), 255), 0, 255 >>
    IN  Put(f, 7, getCRC(f, 7))

\* resetTarget(addr) is balanceTarget(addr, 4096)
ResetTargetValue == 4096

\* the target of the enabled test call
TestTarget ==
    IF testCall.op = "resetTarget" THEN ResetTargetValue ELSE testCall.target

\* the test calls at the end of the loop body ("uncomment any of these")
TestCalls ==
    { [op |-> "none", addr |-> 0, target |-> 0],
      [op |-> "balanceTarget", addr |-> AddressOf(0), target |-> 3300],
      [op |-> "balanceTarget", addr |-> GLOBAL_ADDR, target |-> 3300],
      [op |-> "resetTarget", addr |-> AddressOf(0), target |-> 0] }

\* the end of the loop body: the enabled test call, if any
Loop_Test ==
    /\ pc = "loop_test"
    /\ pc' = IF testCall.op = "none" THEN "loop" ELSE "bt_enter"
    /\ UNCHANGED << cfgVars, i, trigger_in, aaVars, wire, bms, inbuf, ackFailed,
                    pollVars >>

\* ack = False; build the command; on the real transport reset the input
\* buffer and write the command
BT_Enter ==
    /\ pc = "bt_enter"
    /\ cmd_buf' = BalanceTargetCmd(testCall.addr, TestTarget)
    /\ IF simulate = FALSE
       THEN /\ ack' = FALSE
            /\ wire' = wire \o << EvClear, EvWrite(cmd_buf') >>
            /\ bms' = Deliver(bms, trigger_in, cmd_buf')
            /\ \E kind \in ReplyChoice(Responders(cmd_buf') # { }) :
                  /\ inbuf' = ReplyBytes(kind, MkResponse(testCall.addr, ZeroPayload))
                  /\ responses' = << inbuf' >>
            /\ pc' = "bt_check"
       ELSE /\ ack' = TRUE
            /\ responses' = << >>
            /\ UNCHANGED << wire, bms, inbuf >>
            /\ pc' = "loop"
    /\ UNCHANGED << cfgVars, i, trigger_in, aaVars, ackFailed, cycle, j,
                    bm_response_buffer, allVoltages, battery_voltages, summary >>

\* variant: a broadcast is acknowledged only by 14 waiting bytes as well
BT_Check_broadcastNeedsReply ==
    /\ pc = "bt_check"
    /\ ack' = (Len(inbuf) = 14)
    /\ pc' = "loop"
    /\ UNCHANGED << cfgVars, i, trigger_in, aaVars, wire, bms, inbuf, ackFailed,
                    cycle, j, cmd_buf, bm_response_buffer, allVoltages,
                    battery_voltages, summary, responses >>

\* check if the command was received; return ack
BT_Check ==
    /\ pc = "bt_check"
    /\ ack' = IF testCall.addr # 255 /\ Len(inbuf) = 14 THEN TRUE
              ELSE IF testCall.addr = 255 THEN TRUE
              ELSE FALSE
    /\ pc' = "loop"
    /\ UNCHANGED << cfgVars, i, trigger_in, aaVars, wire, bms, inbuf, ackFailed,
                    cycle, j, cmd_buf, bm_response_buffer, allVoltages,
                    battery_voltages, summary, responses >>

balanceTarget == BT_Enter \/ BT_Check

-----------------------------------------------------------------------------

\* the boards before the program runs: unaddressed, or addressed by an
\* earlier run when the controller is configured with addressAssigned = True
InitBoards(assigned) ==
    [b \in Boards |->
        [addr |-> IF assigned THEN AddressOf(b) ELSE DEFAULT_ADDR,
         trig_out |-> FALSE]]

\* the links of a whole run: sound, silent, truncating, corrupting
Links == { "ok", "none", "short", "bad" }

Seeds == { 0, 1 }

Init ==
    /\ simulate \in BOOLEAN
    /\ addressAssigned \in BOOLEAN
    /\ testCall \in TestCalls
    /\ link \in (IF simulate THEN { "ok" } ELSE Links)
    /\ seed \in (IF simulate THEN Seeds ELSE { 0 })
    /\ pc = "main"
    /\ i = 0
    /\ trigger_in = "off"
    /\ global_set_addr_cmd = << >>
    /\ trigger_cmd = << >>
    /\ auto_addr_done_cmd = << >>
    /\ wire = << >>
    /\ bms = InitBoards(addressAssigned)
    /\ inbuf = << >>
    /\ ackFailed = { }
    /\ cycle = 0
    /\ j = 0
    /\ cmd_buf = << >>
    /\ bm_response_buffer = << >>
    /\ allVoltages = [k \in 0 .. 11 |-> 0]
    /\ battery_voltages = [b \in Boards |-> [k \in 0 .. 11 |-> 0]]
    /\ summary = [k \in 0 .. 7 |-> 0]
    /\ responses = << >>
    /\ ack = FALSE

Next ==
    \/ Main_Start
    \/ assignAddresses
    \/ Loop_StartCycle
    \/ pollForVoltages
    \/ sendSummary
    \/ Loop_Test
    \/ balanceTarget

Spec == Init /\ [][Next]_vars

-----------------------------------------------------------------------------
(* One pass of the polling loop body over addressed boards, on a link that *)
(* may lose, truncate or corrupt any single answer.                        *)

InitPoll ==
    /\ simulate \in BOOLEAN
    /\ addressAssigned = TRUE
    /\ testCall \in { c \in TestCalls : c.op = "none" }
    /\ link = "any"
    /\ seed = 0
    /\ pc = "pv_enter"
    /\ i = 0
    /\ trigger_in = "off"
    /\ global_set_addr_cmd = << >>
    /\ trigger_cmd = << >>
    /\ auto_addr_done_cmd = << >>
    /\ wire = << >>
    /\ bms = InitBoards(TRUE)
    /\ inbuf = << >>
    /\ ackFailed = { }
    /\ cycle = 1
    /\ j = 0
    /\ cmd_buf = << >>
    /\ bm_response_buffer = << >>
    /\ allVoltages = [k \in 0 .. 11 |-> 0]
    /\ battery_voltages = [b \in Boards |-> [k \in 0 .. 11 |-> 0]]
    /\ summary = [k \in 0 .. 7 |-> 0]
    /\ responses = << >>
    /\ ack = FALSE

NextPoll ==
    \/ pollForVoltages
    \/ sendSummary

SpecPoll == InitPoll /\ [][NextPoll]_vars

-----------------------------------------------------------------------------
(* One call of balanceTarget or resetTarget, to a board or to all boards,  *)
(* with any target of interest, whatever the input buffer holds.           *)

\* the targets given to balanceTarget: the ends of the range, both sides of
\* a byte boundary, the value of the test call and the reset value
BalanceTargets == { 1, 256, 257, 3300, ResetTargetValue, 65536 }

BalanceCalls ==
    { [op |-> "balanceTarget", addr |-> a, target |-> t] :
          a \in { AddressOf(b) : b \in Boards } \cup { GLOBAL_ADDR },
          t \in BalanceTargets }
    \cup
    { [op |-> "resetTarget", addr |-> a, target |-> 0] :
          a \in { AddressOf(b) : b \in Boards } \cup { GLOBAL_ADDR } }

\* what an earlier exchange may have left in the input buffer
StaleInputs ==
    { << >>, << HEAD >>, MkResponse(AddressOf(0), ZeroPayload) }

InitBalance ==
    /\ simulate \in BOOLEAN
    /\ addressAssigned = TRUE
    /\ testCall \in BalanceCalls
    /\ link = "any"
    /\ seed = 0
    /\ pc = "bt_enter"
    /\ i = 0
    /\ trigger_in = "off"
    /\ global_set_addr_cmd = << >>
    /\ trigger_cmd = << >>
    /\ auto_addr_done_cmd = << >>
    /\ wire = << >>
    /\ bms = InitBoards(TRUE)
    /\ inbuf \in (IF simulate THEN { << >> } ELSE StaleInputs)
    /\ ackFailed = { }
    /\ cycle = 1
    /\ j = 0
    /\ cmd_buf = << >>
    /\ bm_response_buffer = << >>
    /\ allVoltages = [k \in 0 .. 11 |-> 0]
    /\ battery_voltages = [b \in Boards |-> [k \in 0 .. 11 |-> 0]]
    /\ summary = [k \in 0 .. 7 |-> 0]
    /\ responses = << >>
    /\ ack = FALSE

NextBalance ==
    \/ BT_Enter
    \/ BT_Check

SpecBalance == InitBalance /\ [][NextBalance]_vars

-----------------------------------------------------------------------------
(* A later pass of the polling loop body on the real transport: the rows   *)
(* of battery_voltages hold what the pass before it stored.                *)

\* the rows stored by a first pass whose responses were all valid
PrevRows ==
    [b \in Boards |-> [n \in 0 .. 11 |-> CellMilliVolts(b, n \div 4, n % 4, 1)]]

InitLater ==
    /\ simulate = FALSE
    /\ addressAssigned = TRUE
    /\ testCall \in { c \in TestCalls : c.op = "none" }
    /\ link = "any"
    /\ seed = 0
    /\ pc = "pv_enter"
    /\ i = 0
    /\ trigger_in = "off"
    /\ global_set_addr_cmd = << >>
    /\ trigger_cmd = << >>
    /\ auto_addr_done_cmd = << >>
    /\ wire = << >>
    /\ bms = InitBoards(TRUE)
    /\ inbuf = << >>
    /\ ackFailed = { }
    /\ cycle = 2
    /\ j = 0
    /\ cmd_buf = << >>
    /\ bm_response_buffer = << >>
    /\ allVoltages = PrevRows[NO_BMS - 1]
    /\ battery_voltages = PrevRows
    /\ summary = SummaryFields(SummaryReply(NO_BMS - 1, 1))
    /\ responses = << >>
    /\ ack = FALSE

NextLater ==
    \/ PV_Enter
    \/ PV_Request
    \/ PV_Read
    \/ PV_Return
    \/ SS_Enter
    \/ SS_Read
    \/ SS_Return

SpecLater == InitLater /\ [][NextLater]_vars

-----------------------------------------------------------------------------
(* A caller other than the polling loop: in each cycle it calls            *)
(* pollForVoltages or sendSummary once, for any board, on the real         *)
(* transport, and takes what the call returns.                             *)

Call_Start ==
    /\ pc = "idle"
    /\ cycle < MaxCycles
    /\ cycle' = cycle + 1
    /\ i' \in Boards
    /\ pc' \in { "pv_enter", "ss_enter" }
    /\ UNCHANGED << cfgVars, trigger_in, aaVars, wire, bms, inbuf, ackFailed, ack, j,
                    cmd_buf, bm_response_buffer, allVoltages, battery_voltages,
                    summary, responses >>

\* return allVoltages
Call_PV_Return ==
    /\ pc = "pv_return"
    /\ bm_response_buffer' = << >>
    /\ responses' = << >>
    /\ cmd_buf' = << >>
    /\ pc' = "idle"
    /\ UNCHANGED << cfgVars, i, trigger_in, aaVars, wire, bms, inbuf, ackFailed, ack,
                    cycle, j, allVoltages, battery_voltages, summary >>

\* return summary
Call_SS_Return ==
    /\ pc = "ss_return"
    /\ bm_response_buffer' = << >>
    /\ cmd_buf' = << >>
    /\ pc' = "idle"
    /\ UNCHANGED << cfgVars, i, trigger_in, aaVars, wire, bms, inbuf, ackFailed, ack,
                    cycle, j, allVoltages, battery_voltages, summary, responses >>

InitCalls ==
    /\ simulate = FALSE
    /\ addressAssigned = TRUE
    /\ testCall \in { c \in TestCalls : c.op = "none" }
    /\ link \in Links
    /\ seed = 0
    /\ pc = "idle"
    /\ i = 0
    /\ trigger_in = "off"
    /\ global_set_addr_cmd = << >>
    /\ trigger_cmd = << >>
    /\ auto_addr_done_cmd = << >>
    /\ wire = << >>
    /\ bms = InitBoards(TRUE)
    /\ inbuf = << >>
    /\ ackFailed = { }
    /\ cycle = 0
    /\ j = 0
    /\ cmd_buf = << >>
    /\ bm_response_buffer = << >>
    /\ allVoltages = [k \in 0 .. 11 |-> 0]
    /\ battery_voltages = [b \in Boards |-> [k \in 0 .. 11 |-> 0]]
    /\ summary = [k \in 0 .. 7 |-> 0]
    /\ responses = << >>
    /\ ack = FALSE

NextCalls ==
    \/ Call_Start
    \/ PV_Enter
    \/ PV_Request
    \/ PV_Read
    \/ Call_PV_Return
    \/ SS_Enter
    \/ SS_Read
    \/ Call_SS_Return

SpecCalls == InitCalls /\ [][NextCalls]_vars

-----------------------------------------------------------------------------
(* Properties of the addressing sequence                                   *)

AAPcs == { "aa_enter", "aa0_assert", "aa0_set", "aa0_trig", "aa0_deassert",
           "aai_set", "aai_trig", "aai_prev", "aa_done" }

\* assignAddresses ran on the real transport
AA_Runs == simulate = FALSE /\ addressAssigned = FALSE

\* ... and has returned
AA_Completed == AA_Runs /\ pc \notin ({ "main" } \cup AAPcs)

IsCmd(f, c) == Len(f) = BMS_COMMAND_LEN /\ At(f, 2) = c

\* the positions of the frames with command c among the frames written
FramesOf(c) ==
    LET W == Written
    IN  { k \in 1 .. Len(W) : IsCmd(W[k], c) }

\* number of frames assignAddresses writes before AUTOADDR_DONE
AAFrames == 3 * NO_BMS - 1

\* C1: after assignAddresses completes on a chain of 3 unaddressed boards,
\* board b holds [0xAD, 0xBC, 0xDE][b]: every board holds an address of the
\* pool, no two boards hold the same one, none holds DEFAULT or GLOBAL.
C1_BoardsAddressed ==
    AA_Completed =>
        /\ \A b \in Boards : bms[b].addr = << 173, 188, 222 >>[b + 1]
        /\ \A b \in Boards : \E c \in Boards : bms[b].addr = AddressOf(c)
        /\ \A b, c \in Boards : b # c => bms[b].addr # bms[c].addr
        /\ \A b \in Boards : bms[b].addr \notin { DEFAULT_ADDR, GLOBAL_ADDR }

C1_Witness ==
    /\ AA_Completed
    /\ bms[0].addr = 173 /\ bms[1].addr = 188 /\ bms[2].addr = 222

\* C2: at every instant of assignAddresses at most one board of the chain
\* is both enabled and still unaddressed.
C2_AtMostOneAddressable ==
    Cardinality({ b \in Boards : Addressable(b) }) <= 1

\* two boards enabled at once, one of them the single unaddressed enabled one
C2_Witness ==
    /\ AA_Runs /\ pc = "aai_prev" /\ i = 1
    /\ BoardEnabled(1, trigger_in, bms) /\ ~ Addressable(1)
    /\ Addressable(2)

\* C3 as stated: every SET_ADDRESS frame written by assignAddresses is
\* addressed to DEFAULT (0xFE) and carries addresses[i] in its payload.
C3_SetAddressToDefault ==
    LET W == Written
    IN  \A k \in FramesOf(CMD_SET_ADDRESS) :
            /\ At(W[k], 1) = DEFAULT_ADDR
            /\ \E b \in Boards : At(W[k], 3) = AddressOf(b)

\* C3, amended: every SET_ADDRESS frame written by assignAddresses is
\* addressed to GLOBAL (0xFF), and the frame written for board i carries
\* addresses[i] as the new address in byte 3.
C3_SetAddressToGlobal ==
    LET W == Written
        S == FramesOf(CMD_SET_ADDRESS)
    IN  /\ \A k \in S :
              /\ At(W[k], 1) = GLOBAL_ADDR
              /\ \E b \in Boards :
                    /\ At(W[k], 3) = AddressOf(b)
                    /\ Cardinality({ m \in S : m < k }) = b
        /\ AA_Completed => Cardinality(S) = NO_BMS

C3_Witness ==
    /\ AA_Completed
    /\ Cardinality(FramesOf(CMD_SET_ADDRESS)) = 3

\* C4: a run of assignAddresses on the real transport writes exactly one
\* AUTOADDR_DONE frame, addressed to GLOBAL, after the SET_ADDRESS and
\* TRIGGER frames of all boards, and writes nothing after it.
C4_OneAutoAddrDoneLast ==
    LET W == Written
    IN  /\ (AA_Runs /\ pc \in AAPcs) => FramesOf(CMD_AUTOADDR_DONE) = { }
        /\ AA_Completed =>
              /\ FramesOf(CMD_AUTOADDR_DONE) = { AAFrames + 1 }
              /\ At(W[AAFrames + 1], 1) = GLOBAL_ADDR
              /\ \A k \in 1 .. AAFrames :
                    IsCmd(W[k], CMD_SET_ADDRESS) \/ IsCmd(W[k], CMD_TRIGGER)
              /\ \A b \in Boards : \E k \in 1 .. AAFrames :
                    IsCmd(W[k], CMD_SET_ADDRESS) /\ At(W[k], 3) = AddressOf(b)
              /\ (FramesOf(CMD_SET_ADDRESS) \cup FramesOf(CMD_TRIGGER))
                    \subseteq 1 .. AAFrames
        /\ (AA_Runs /\ pc = "loop" /\ cycle = 0) => Len(W) = AAFrames + 1

C4_Witness ==
    /\ AA_Runs /\ pc = "loop" /\ cycle = 0
    /\ Len(Written) = AAFrames + 1
    /\ IsCmd(Written[AAFrames + 1], CMD_AUTOADDR_DONE)

\* the positions of the trigger-line assertions in the log
Asserts == { k \in 1 .. Len(wire) : wire[k].ev = "assert" }

\* C5: for board 0 assignAddresses asserts the trigger line, writes
\* SET_ADDRESS carrying addresses[0], writes TRIGGER addressed to
\* addresses[0], then deasserts the line; it asserts the line at no other
\* point, and the line is deasserted when it returns.
C5_BoardZeroOrder ==
    /\ Cardinality(Asserts) <= 1
    /\ \A a \in Asserts :
          /\ \A k \in 1 .. (a - 1) : wire[k].ev = "clear"
          /\ Len(wire) > a =>
                /\ wire[a + 1].ev = "write"
                /\ IsCmd(wire[a + 1].frame, CMD_SET_ADDRESS)
                /\ At(wire[a + 1].frame, 3) = AddressOf(0)
          /\ Len(wire) > a + 1 =>
                /\ wire[a + 2].ev = "write"
                /\ IsCmd(wire[a + 2].frame, CMD_TRIGGER)
                /\ At(wire[a + 2].frame, 1) = AddressOf(0)
          /\ Len(wire) > a + 2 => wire[a + 3].ev = "deassert"
          /\ \A k \in 1 .. Len(wire) : wire[k].ev = "deassert" => k = a + 3
    /\ (AA_Runs /\ pc \in { "aa0_set", "aa0_trig", "aa0_deassert" }) =>
          trigger_in = assertTrigger
    /\ AA_Completed => (Asserts # { } /\ trigger_in = deassertTrigger)

C5_Witness ==
    /\ AA_Completed
    /\ trigger_in = "on"
    /\ Asserts # { }

\* the frame assignAddresses is to write at position k (1-based): command,
\* address byte and new-address byte
ExpectedAAFrame(k) ==
    IF k <= 2
    THEN IF k = 1 THEN << CMD_SET_ADDRESS, GLOBAL_ADDR, AddressOf(0) >>
                  ELSE << CMD_TRIGGER, AddressOf(0), 0 >>
    ELSE LET b == k \div 3
         IN  CASE k % 3 = 0 -> << CMD_SET_ADDRESS, GLOBAL_ADDR, AddressOf(b) >>
               [] k % 3 = 1 -> << CMD_TRIGGER, AddressOf(b), 0 >>
               [] OTHER     -> << CMD_TRIGGER, AddressOf(b - 1), 0 >>

\* C6: assignAddresses handles the boards in chain order 0..N-1, and for
\* every board i >= 1 it writes SET_ADDRESS carrying addresses[i], TRIGGER
\* to addresses[i], TRIGGER to addresses[i-1], in this order, before any
\* frame of board i+1.
C6_ChainOrder ==
    LET W == Written
    IN  AA_Runs =>
            /\ \A k \in 1 .. Len(W) :
                  k <= AAFrames =>
                      << At(W[k], 2), At(W[k], 1), At(W[k], 3) >> = ExpectedAAFrame(k)
            /\ pc \notin ({ "main" } \cup AAPcs) => Len(W) > AAFrames

C6_Witness ==
    /\ AA_Completed
    /\ Len(Written) > AAFrames
    /\ IsCmd(Written[AAFrames], CMD_TRIGGER)
    /\ At(Written[AAFrames], 1) = AddressOf(NO_BMS - 2)

\* C7 as stated: when a board gives no acknowledgment, or a wrong one,
\* assignAddresses aborts: it writes no SET_ADDRESS or TRIGGER frame for a
\* later board and no AUTOADDR_DONE, and the caller does not go on to poll.
C7_AbortsOnMissingAck ==
    LET W == Written
    IN  \A b \in ackFailed :
            /\ \A k \in 1 .. Len(W) :
                  ~ (\E c \in Boards : c > b /\ IsCmd(W[k], CMD_SET_ADDRESS)
                                            /\ At(W[k], 3) = AddressOf(c))
            /\ FramesOf(CMD_AUTOADDR_DONE) = { }
            /\ pc \in AAPcs

-----------------------------------------------------------------------------
(* Properties of the frames and of the decoding                            *)

\* C8: every command frame written to the transport, by any operation, is
\* 8 bytes long, starts with HEAD and has byte 7 equal to the CRC-8 of its
\* bytes 0..6 as they are when it is written.
C8_FramesWellFormed ==
    LET W == Written
    IN  \A k \in 1 .. Len(W) :
            /\ Len(W[k]) = 8
            /\ At(W[k], 0) = 88
            /\ At(W[k], 7) = getCRC(W[k], 7)

\* rewritten buffers of every operation have gone out
C8_Witness ==
    /\ AA_Completed
    /\ FramesOf(CMD_TRIGGER) # { }
    /\ FramesOf(CMD_GLOBAL_SNAPSHOT) # { }
    /\ FramesOf(CMD_SEND_ALL_VOLTAGES_1 + 2) # { }
    /\ FramesOf(CMD_SEND_SUMMARY) # { }
    /\ FramesOf(CMD_BALANCE_TARGET) # { }

\* a response that must not be decoded: not 14 bytes, or 14 bytes with a
\* non-zero CRC-8
Rejected(r) == Len(r) # 14 \/ getCRC(r, Len(r)) # 0

\* C9: pollForVoltages and sendSummary take no telemetry field from a
\* response that is not 14 bytes long or whose CRC-8 is not zero: the
\* voltages of its group, and the summary, keep their initial zeros.
C9_InvalidNeverDecoded ==
    /\ (simulate = FALSE /\ pc \in { "pv_request", "pv_return" }) =>
          \A g \in 1 .. Len(responses) :
              Rejected(responses[g]) =>
                  \A k \in 0 .. 3 : allVoltages[4 * (g - 1) + k] = 0
    /\ (simulate = FALSE /\ pc = "ss_return" /\ Rejected(bm_response_buffer)) =>
          \A k \in 0 .. 7 : summary[k] = 0

\* a poll whose three reads are a valid, a corrupted and a truncated response
C9_Witness ==
    /\ simulate = FALSE /\ pc = "pv_return"
    /\ Len(responses) = 3
    /\ ~ Rejected(responses[1])
    /\ Len(responses[2]) = 14 /\ getCRC(responses[2], 14) # 0
    /\ Len(responses[3]) = 13
    /\ allVoltages[0] # 0

\* C10: when its three responses are valid, pollForVoltages on the real
\* transport has sent SEND_ALL_VOLTAGES_1, _2, _3 in this order to the
\* given address, and returns 12 elements with element 4j+k equal to
\* (byte[2k+3] << 8) | byte[2k+2] of the j-th response, unadjusted.
C10_VoltagesDecoded ==
    LET W == Written
        n == Len(W)
    IN  (/\ simulate = FALSE /\ pc = "pv_return"
         /\ \A g \in 1 .. 3 : ~ Rejected(responses[g])) =>
            /\ n >= 3
            /\ \A g \in 0 .. 2 :
                  /\ At(W[n - 2 + g], 2) = 160 + g
                  /\ At(W[n - 2 + g], 1) = AddressOf(i)
            /\ DOMAIN allVoltages = 0 .. 11
            /\ \A g \in 0 .. 2 : \A k \in 0 .. 3 :
                  /\ allVoltages[4 * g + k] =
                        256 * At(responses[g + 1], 2 * k + 3)
                            + At(responses[g + 1], 2 * k + 2)
                  /\ allVoltages[4 * g + k] = CellMilliVolts(i, g, k, cycle)

C10_Witness ==
    /\ simulate = FALSE /\ pc = "pv_return" /\ i = 2
    /\ \A g \in 1 .. 3 : ~ Rejected(responses[g])
    /\ allVoltages[0] = 2100
    /\ allVoltages[11] = 3200

-----------------------------------------------------------------------------
(* sendSummary: the decoded summary                                        *)

\* sendSummary has returned
SS_Returned == pc = "ss_return"

\* C11: for every valid 14-byte response b, sendSummary returns
\* [minV, minLoc, maxV, maxLoc, avgV, temp1, temp2, status] with
\* minV = b[2] | b[3] << 8, maxV = b[4] | b[5] << 8, avgV = b[6] | b[7] << 8,
\* minLoc the low and maxLoc the high nibble of b[8],
\* temp1 = b[9] | (b[10] & 0x0F) << 8, temp2 = (b[10] >> 4) | b[11] << 4,
\* status = b[12]; the locations are in 0..15 and the temperatures in 0..4095
C11_SummaryDecoded ==
    LET b == bm_response_buffer
    IN  (SS_Returned /\ Len(b) = 14 /\ getCRC(b, 14) = 0) =>
            /\ summary[0] = At(b, 2) + 256 * At(b, 3)
            /\ summary[1] = At(b, 8) % 16
            /\ summary[2] = At(b, 4) + 256 * At(b, 5)
            /\ summary[3] = At(b, 8) \div 16
            /\ summary[4] = At(b, 6) + 256 * At(b, 7)
            /\ summary[5] = At(b, 9) + 256 * (At(b, 10) % 16)
            /\ summary[6] = (At(b, 10) \div 16) + 16 * At(b, 11)
            /\ summary[7] = At(b, 12)
            /\ summary[1] \in 0 .. 15 /\ summary[3] \in 0 .. 15
            /\ summary[5] \in 0 .. 4095 /\ summary[6] \in 0 .. 4095
            /\ simulate = FALSE =>
                   \A k \in 0 .. 7 : summary[k] = BoardSummary(i, cycle)[k + 1]

\* board 1 answered on the real transport: temp1 = 506 takes two bits of
\* byte 10, temp2 = 301 its high nibble and byte 11
C11_Witness ==
    /\ SS_Returned /\ simulate = FALSE /\ i = 1
    /\ Len(bm_response_buffer) = 14 /\ getCRC(bm_response_buffer, 14) = 0
    /\ At(bm_response_buffer, 10) = 209
    /\ summary[5] = 506 /\ summary[6] = 301 /\ summary[7] = 5

-----------------------------------------------------------------------------
(* balanceTarget and resetTarget                                           *)

\* balanceTarget has built its command
BT_Built == pc = "bt_check" \/ (pc = "loop" /\ cmd_buf # << >>)

\* C12: for every address and every target in 1..65536, balanceTarget builds
\* a BALANCE_TARGET (0xAA) frame to addr whose payload carries target - 1 as
\* a little-endian 16-bit value; balanceTarget(addr, 3300) encodes 3299 and
\* resetTarget(addr), which is balanceTarget(addr, 4096), encodes 0x0FFF
C12_TargetMinusOne ==
    BT_Built =>
        LET target == IF testCall.op = "resetTarget" THEN 4096 ELSE testCall.target
        IN  /\ Len(cmd_buf) = 8
            /\ At(cmd_buf, 0) = 88
            /\ At(cmd_buf, 1) = testCall.addr
            /\ At(cmd_buf, 2) = 170
            /\ At(cmd_buf, 4) \in 0 .. 255
            /\ At(cmd_buf, 5) \in 0 .. 255
            /\ At(cmd_buf, 4) + 256 * At(cmd_buf, 5) = target - 1
            /\ (testCall.op = "balanceTarget" /\ testCall.target = 3300) =>
                   (At(cmd_buf, 4) = 227 /\ At(cmd_buf, 5) = 12)
            /\ testCall.op = "resetTarget" =>
                   (At(cmd_buf, 4) = 255 /\ At(cmd_buf, 5) = 15)
            /\ simulate = FALSE => Written[Len(Written)] = cmd_buf

\* the largest target, sent to the last board on the real transport
C12_Witness ==
    /\ pc = "loop" /\ simulate = FALSE
    /\ testCall.op = "balanceTarget" /\ testCall.target = 65536
    /\ testCall.addr = 222
    /\ At(cmd_buf, 4) = 255 /\ At(cmd_buf, 5) = 255

\* balanceTarget has returned ack
BT_Returned == pc = "loop" /\ cmd_buf # << >>

\* C13: balanceTarget returns True for every broadcast call (addr = 0xFF),
\* whatever the transport holds; for a targeted call on the real transport
\* it returns True exactly when the board's 14-byte reply to this command
\* has arrived, and False when no reply arrived
C13_AckMeansReply ==
    BT_Returned =>
        /\ testCall.addr = 255 => ack = TRUE
        /\ (testCall.addr # 255 /\ simulate = FALSE) =>
               /\ Len(responses) = 1
               /\ ack = TRUE <=> Len(responses[1]) = 14
               /\ responses[1] = << >> => ack = FALSE

\* a targeted call on the real transport whose reply was lost: the call
\* returned False
C13_Witness ==
    /\ BT_Returned /\ simulate = FALSE
    /\ testCall.addr = 173
    /\ responses = << << >> >>
    /\ ack = FALSE

-----------------------------------------------------------------------------
(* A transport that does not reply                                         *)

\* a valid response of the polled board whose payload is all zeros
ZeroReading == MkResponse(AddressOf(i), ZeroPayload)

\* what pollForVoltages returns for three valid responses of 0 mV cells
VoltagesOfZeroReading ==
    DecodeVoltages(
        DecodeVoltages(
            DecodeVoltages([k \in 0 .. 11 |-> 0], 0, ZeroReading),
            1, ZeroReading),
        2, ZeroReading)

\* C14: when no reply comes to any request of a targeted exchange,
\* pollForVoltages and sendSummary end in an outcome that reports the
\* missing reply to the caller: what they return differs from what they
\* return for a successful exchange
C14_TimeoutReported ==
    /\ (simulate = FALSE /\ pc = "pv_return"
            /\ \A g \in 1 .. 3 : responses[g] = << >>) =>
           allVoltages # VoltagesOfZeroReading
    /\ (simulate = FALSE /\ pc = "ss_return" /\ bm_response_buffer = << >>) =>
           summary # DecodeSummary(ZeroReading)

-----------------------------------------------------------------------------
(* The discipline of the input buffer                                      *)

\* the commands that expect a reply: SET_ADDRESS, the three voltage
\* requests, the summary request and a targeted balance target
ExpectsReply(f) ==
    \/ IsCmd(f, CMD_SET_ADDRESS)
    \/ \E g \in 0 .. 2 : IsCmd(f, CMD_SEND_ALL_VOLTAGES_1 + g)
    \/ IsCmd(f, CMD_SEND_SUMMARY)
    \/ (IsCmd(f, CMD_BALANCE_TARGET) /\ At(f, 1) # GLOBAL_ADDR)

\* the positions in the log where a reply-expecting command is written
Requests ==
    { k \in 1 .. Len(wire) : wire[k].ev = "write" /\ ExpectsReply(wire[k].frame) }

\* C15: on the real transport, the input buffer is cleared immediately
\* before every reply-expecting command is written, with no other frame
\* written between the clear and that command
C15_ClearedBeforeRequest ==
    \A k \in Requests :
        \E c \in 1 .. k - 1 :
            /\ wire[c].ev = "clear"
            /\ \A n \in c + 1 .. k - 1 : wire[n].ev # "write"

\* C16: on the real transport, every write of a reply-expecting command is
\* followed, before the next command is written, by a read attempt of its
\* response
C16_ReadBeforeNextWrite ==
    \A k \in Requests :
        \A n \in k + 1 .. Len(wire) :
            wire[n].ev = "write" =>
                \E r \in k + 1 .. n - 1 : wire[r].ev = "read"

-----------------------------------------------------------------------------
(* The polling loop after a failed response                                *)

\* C17: in the polling loop, when a response from board i fails validation,
\* board i's row of battery_voltages keeps the values it had before this
\* cycle, and the rows of the other boards are unchanged
C17_FailedRowKept ==
    [][ (pc = "pv_return" /\ \E g \in 1 .. 3 : Rejected(responses[g])) =>
            battery_voltages' = battery_voltages ]_vars

-----------------------------------------------------------------------------
(* The snapshot before the telemetry requests                              *)

\* frame f is a GLOBAL_SNAPSHOT broadcast carrying the system current
IsSnapshot(f) ==
    /\ Len(f) = 8
    /\ At(f, 1) = 255
    /\ At(f, 2) = 70
    /\ At(f, 4) + 256 * At(f, 5) = 285

IsVoltageRequest(f) == \E g \in 0 .. 2 : IsCmd(f, CMD_SEND_ALL_VOLTAGES_1 + g)

\* C18 as stated: in any sequence of calls to pollForVoltages and
\* sendSummary on the real transport, every SEND_ALL_VOLTAGES_1/2/3 frame
\* and every SEND_SUMMARY frame written is preceded in the write order by a
\* GLOBAL_SNAPSHOT broadcast to GLOBAL carrying the system current
C18_SnapshotBeforeEveryRequest ==
    LET W == Written
    IN  \A k \in 1 .. Len(W) :
            (IsVoltageRequest(W[k]) \/ IsCmd(W[k], CMD_SEND_SUMMARY)) =>
                \E n \in 1 .. k - 1 : IsSnapshot(W[n])

\* C18, amended: every SEND_ALL_VOLTAGES_1/2/3 frame written is preceded in
\* the write order by a GLOBAL_SNAPSHOT broadcast to GLOBAL carrying the
\* system current, written by the same pollForVoltages call; sendSummary
\* writes no snapshot: a SEND_SUMMARY frame is preceded by one exactly when
\* a pollForVoltages call came before it
C18_SnapshotBeforeVoltages ==
    LET W == Written
    IN  \A k \in 1 .. Len(W) :
            /\ IsCmd(W[k], CMD_SEND_ALL_VOLTAGES_1) =>
                   (k > 1 /\ IsSnapshot(W[k - 1]))
            /\ IsVoltageRequest(W[k]) =>
                   \E n \in 1 .. k - 1 : IsSnapshot(W[n])
            /\ IsCmd(W[k], CMD_SEND_SUMMARY) =>
                   ((\E n \in 1 .. k - 1 : IsSnapshot(W[n]))
                        <=> (\E n \in 1 .. k - 1 : IsVoltageRequest(W[n])))

\* sendSummary was called first and pollForVoltages after it
C18_Witness ==
    LET W == Written
    IN  /\ Len(W) = 5
        /\ IsCmd(W[1], CMD_SEND_SUMMARY)
        /\ IsSnapshot(W[2])
        /\ IsCmd(W[3], CMD_SEND_ALL_VOLTAGES_1)
        /\ IsCmd(W[5], CMD_SEND_ALL_VOLTAGES_1 + 2)

-----------------------------------------------------------------------------
(* Addressing and polling                                                  *)

\* C19: assignAddresses is executed at most once, exactly when
\* addressAssigned is False, and when executed it completes before the
\* first voltage or summary request of the polling loop is written; it is
\* never executed again once polling has started
C19_AssignOnceAtStart ==
    [][ LET W == Written
            polled == { k \in 1 .. Len(W) :
                          IsVoltageRequest(W[k]) \/ IsCmd(W[k], CMD_SEND_SUMMARY) }
            assigning == { k \in 1 .. Len(W) :
                             \/ IsCmd(W[k], CMD_SET_ADDRESS)
                             \/ IsCmd(W[k], CMD_TRIGGER)
                             \/ IsCmd(W[k], CMD_AUTOADDR_DONE) }
        IN  /\ (pc' \in AAPcs /\ pc \notin AAPcs) =>
                   (pc = "main" /\ addressAssigned = FALSE)
            /\ (pc = "main" /\ pc' # "main") =>
                   (pc' \in AAPcs <=> addressAssigned = FALSE)
            /\ pc' = "main" => pc = "main"
            /\ pc \in ({ "main" } \cup AAPcs) => (polled = { } /\ cycle = 0)
            /\ addressAssigned = TRUE => assigning = { }
            /\ \A k \in assigning : \A n \in polled : k < n
            /\ Cardinality(FramesOf(CMD_AUTOADDR_DONE))
                   = (IF AA_Completed THEN 1 ELSE 0) ]_vars

\* the addresses were assigned at the start and the second polling cycle
\* has written its first voltage request
C19_Witness ==
    /\ AA_Completed
    /\ cycle = 2 /\ pc = "pv_read"
    /\ Cardinality(FramesOf(CMD_AUTOADDR_DONE)) = 1
    /\ Cardinality(FramesOf(CMD_SEND_SUMMARY)) = 3

-----------------------------------------------------------------------------
(* The simulated and the real path                                         *)

\* what the real path of pollForVoltages returns for the responses r
RealVoltages(r) ==
    DecodeVoltages(
        DecodeVoltages(
            DecodeVoltages([k \in 0 .. 11 |-> 0], 0, r[1]),
            1, r[2]),
        2, r[3])

\* the validation gate of the simulated pollForVoltages
DecodeVoltagesSim(av, g, buf) ==
    IF ResponseIsCorrect(buf) THEN StoreVoltagesSim(av, g, buf) ELSE av

\* what the simulated path of pollForVoltages returns for the responses r
SimVoltages(r) ==
    DecodeVoltagesSim(
        DecodeVoltagesSim(
            DecodeVoltagesSim([k \in 0 .. 11 |-> 0], 0, r[1]),
            1, r[2]),
        2, r[3])

\* C20: for the same three valid response frames the simulated path and the
\* real path of pollForVoltages return the same 12 voltages, and for the
\* same valid response frame the simulated and the real sendSummary return
\* the same 8 fields: what either path has returned is what each of the two
\* paths returns for the frames it received
C20_PathsAgree ==
    /\ (pc = "pv_return" /\ \A g \in 1 .. 3 : ~ Rejected(responses[g])) =>
           /\ allVoltages = RealVoltages(responses)
           /\ allVoltages = SimVoltages(responses)
    /\ (pc = "ss_return" /\ ~ Rejected(bm_response_buffer)) =>
           summary = SummaryFields(bm_response_buffer)

-----------------------------------------------------------------------------
(* pollForVoltages: the groups are independent                             *)

\* C21: pollForVoltages always returns exactly 12 elements and, on the real
\* transport, always sends all three voltage requests: whichever of the
\* three responses fail validation, the four elements of each failed group
\* are 0, the elements of each valid group hold that group's decoded
\* voltages, and a failure of a group neither stops the requests for the
\* later groups nor changes the elements of any other group
C21_GroupsIndependent ==
    LET W == Written
        n == Len(W)
        done == Len(responses)
    IN  /\ pc \in { "pv_request", "pv_read", "pv_sim", "pv_return" } =>
               DOMAIN allVoltages = 0 .. 11
        /\ (simulate = FALSE /\ pc \in { "pv_request", "pv_read", "pv_return" }) =>
               /\ done = j
               /\ \A g \in 0 .. 2 : \A k \in 0 .. 3 :
                      allVoltages[4 * g + k] =
                          IF g < done /\ Len(responses[g + 1]) = 14
                                      /\ getCRC(responses[g + 1], 14) = 0
                          THEN 256 * At(responses[g + 1], 2 * k + 3)
                                   + At(responses[g + 1], 2 * k + 2)
                          ELSE 0
        /\ (simulate = FALSE /\ pc = "pv_return") =>
               /\ done = 3
               /\ n >= 4
               /\ IsSnapshot(W[n - 3])
               /\ \A g \in 0 .. 2 :
                      /\ At(W[n - 2 + g], 2) = 160 + g
                      /\ At(W[n - 2 + g], 1) = AddressOf(i)

\* board 1 on the real transport: the second response was lost, the first
\* and the third were valid and their groups are decoded
C21_Witness ==
    /\ simulate = FALSE /\ pc = "pv_return" /\ i = 1
    /\ Len(responses) = 3
    /\ ~ Rejected(responses[1])
    /\ responses[2] = << >>
    /\ ~ Rejected(responses[3])
    /\ allVoltages[0] = 1100
    /\ \A k \in 4 .. 7 : allVoltages[k] = 0
    /\ allVoltages[11] = 2200

====
